---- MODULE Spec2Model ----
(***************************************************************************)
(* A model of pynetcf.base.Dataset (src/src/pynetcf/base.py): the handle   *)
(* around one array-file resource, its constructor (mode resolution,       *)
(* parent-directory creation, opening), the variable write / append / read *)
(* path, global attributes and the flush / close life cycle.                *)
(*                                                                         *)
(* The wrapped library object (self.dataset) is modelled by the primitives *)
(* the wrapper calls on it: attrs, dims, variables with their dimensions   *)
(* and encoding, slice assignment, sync and close.  It is taken to provide *)
(* each of them: a dimension is registered once, an unlimited dimension is *)
(* shared by the variables over it and grows when a slice is stored past   *)
(* its extent, and cells never written read back masked.  Variable         *)
(* attributes other than _FillValue, autoscale and chunking are left out.  *)
(*                                                                         *)
(* _create_file_dir is split at its existence check, its makedirs call and *)
(* its sleep, so that another process can act in between and so that a     *)
(* retry that never ends is a cycle of steps.  The interpreter's stack     *)
(* limit is not part of the model: the code itself sets no bound.          *)
(***************************************************************************)
EXTENDS Integers, Sequences, FiniteSets, TLC

VARIABLES
    fs,       \* the filesystem: the directory "dir", whether it may be created,
              \* the files that exist and what such a file holds
    pc,       \* position of the handle: "new", inside __init__, "open", "failed"
    h,        \* the handle's own fields (self.filename, self.mode, ...)
    dsState,  \* self.dataset: "unset" (attribute never assigned), "open", "none"
    ds,       \* the resource self.dataset refers to while dsState = "open"
    res,      \* the resource's release: close() calls, sync() after release
    last,     \* the last call on the handle: its arguments and its outcome
    rt        \* progress of a write_var / flush / read_var sequence on one name

vars == <<fs, pc, h, dsState, ds, res, last, rt>>

(***************************************************************************)
(* Bounds of the model                                                     *)
(***************************************************************************)
MaxExtent == 2      \* largest extent an unlimited dimension grows to

(***************************************************************************)
(* Small input sets                                                        *)
(***************************************************************************)
Filenames == {"dir/x.nc", "x.nc"}
Modes == {"r", "w", "a", "r+"}
DatasetNames == {"None", "ds"}
AttrNames == {"note"}
AttrValues == {"v1", "v2"}
VarNames == {"temp"}
\* create_dim(name, n) calls; n = 0 is the size that marks a dimension unlimited
DimDecls == {<<"time", 0>>, <<"x", 2>>}
DimTuples == {<<"time">>, <<"x">>, <<"x", "time">>}
DTypes == {"f8", "i4", "S1"}
DataDTypes == {"f8", "S1"}
DTypeArgs == DTypes \cup {"None"}
ZlibArgs == {"unset", "on", "off"}
FillArgs == {{}, {3}}
RecCounts == {1, 2}
Seeds == {0, 1}

\* the empty mapping
Empty == <<>>

\* no write / flush / read sequence under way
Idle == [stage |-> "idle"]

\* f with key k bound to v
Put(f, k, v) == (k :> v) @@ f

\* dict.update: every entry of g written over f
Update(f, g) == g @@ f

(***************************************************************************)
(* The resource                                                            *)
(***************************************************************************)
EmptyDataset == [attrs |-> Empty, dims |-> Empty, vars |-> Empty]

(***************************************************************************)
(* Arrays and the resource's variables                                     *)
(***************************************************************************)
\* a cell of a variable that was never written holds the fill value
Unwritten == -1

\* np.issubdtype(dtype, np.number)
IsNumeric(dtype) == dtype \in {"f8", "i4"}

\* Numbers are counted in halves (2 is 1.0, 3 is 1.5); storing into an
\* integer variable truncates
Cast(v, dtype) == IF dtype = "i4" THEN (v \div 2) * 2 ELSE v

Max(a, b) == IF a >= b THEN a ELSE b

\* the index tuples of an array of the given shape (rank 0, 1 or 2)
Indices(shape) ==
    IF Len(shape) = 0 THEN {<<>>}
    ELSE IF Len(shape) = 1 THEN {<<i>> : i \in 1..shape[1]}
    ELSE {<<i, j>> : i \in 1..shape[1], j \in 1..shape[2]}

IdxSum(idx) ==
    IF Len(idx) = 0 THEN 0
    ELSE IF Len(idx) = 1 THEN idx[1]
    ELSE idx[1] + idx[2]

\* the input arrays: one per dtype, shape and seed
Elem(dtype, k) ==
    IF dtype = "f8" THEN 2 + (k % 2)
    ELSE IF dtype = "i4" THEN 2 + 2 * (k % 2)
    ELSE 7 + (k % 2)

Arr(dtype, shape, seed) ==
    [dtype |-> dtype, shape |-> shape,
     val |-> [idx \in Indices(shape) |-> Elem(dtype, IdxSum(idx) + seed)]]

\* data=None
NoData == [dtype |-> "None", shape |-> <<>>, val |-> Empty]

\* var.shape: the current sizes of the variable's dimensions
Shape(d, v) == [i \in 1..Len(v.dims) |-> d.dims[v.dims[i]].size]

\* the dimension sizes after data of shape dshape was stored at offsets key
\* into variable v: an unlimited dimension grows to hold start + count
GrownDims(d, v, key, dshape) ==
    [dn \in DOMAIN d.dims |->
        IF d.dims[dn].unlimited /\ \E i \in 1..Len(v.dims) : v.dims[i] = dn
        THEN LET i == CHOOSE i \in 1..Len(v.dims) : v.dims[i] = dn
             IN [d.dims[dn] EXCEPT !.size = Max(@, key[i] + dshape[i])]
        ELSE d.dims[dn]]

\* every variable padded with unwritten cells up to the grown extents
Regrown(d, dims2) ==
    LET d2 == [d EXCEPT !.dims = dims2]
    IN [d2 EXCEPT !.vars =
           [vn \in DOMAIN d.vars |->
               [d.vars[vn] EXCEPT !.data =
                   [idx \in Indices(Shape(d2, d.vars[vn])) |->
                       IF idx \in DOMAIN d.vars[vn].data
                       THEN d.vars[vn].data[idx]
                       ELSE Unwritten]]]]

\* var[key] = data: key[i] is the start of the slice on axis i (0 for ":")
LibSetItem(d, name, key, data) ==
    LET v == d.vars[name]
        g == Regrown(d, GrownDims(d, v, key, data.shape))
        src(idx) == [i \in 1..Len(idx) |-> idx[i] - key[i]]
    IN [g EXCEPT !.vars[name].data =
           [idx \in DOMAIN g.vars[name].data |->
               IF src(idx) \in DOMAIN data.val
               THEN Cast(data.val[src(idx)], v.dtype)
               ELSE g.vars[name].data[idx]]]

\* createVariable: a variable of unwritten cells over its dimensions
LibCreateVariable(d, name, dtype, dim, fills, zlib, complevel) ==
    LET v == [dims |-> dim, dtype |-> dtype, fills |-> fills, zlib |-> zlib,
              complevel |-> complevel, data |-> Empty]
    IN [d EXCEPT !.vars = Put(d.vars, name,
           [v EXCEPT !.data = [idx \in Indices(Shape(d, v)) |-> Unwritten]])]

\* var[:] with auto-masking: unwritten cells and cells holding the declared
\* fill value come back masked
Masked == -2

LibGetAll(d, name) ==
    LET v == d.vars[name]
    IN [kind |-> "array", dtype |-> v.dtype, shape |-> Shape(d, v),
        val |-> [idx \in DOMAIN v.data |->
                    IF v.data[idx] = Unwritten \/ v.data[idx] \in v.fills
                    THEN Masked ELSE v.data[idx]]]

(***************************************************************************)
(* Filesystem helpers                                                      *)
(***************************************************************************)
Dirname(filename) == IF filename = "dir/x.nc" THEN "dir" ELSE ""

Basename(filename) == "x.nc"

\* os.path.exists: the empty path never exists
Exists(path) ==
    IF path = "" THEN FALSE
    ELSE IF path = "dir" THEN fs.dir
    ELSE path \in fs.files

\* os.makedirs(path) raises OSError: the empty path (a bare file name has
\* no directory part), no permission to create it, or the directory has
\* appeared since the caller's check
MakedirsFails(path) == path = "" \/ fs.denied \/ fs.dir

(***************************************************************************)
(* __init__                                                                *)
(***************************************************************************)
\* pynetcf.const.alias_a: the spellings of append mode
alias_a == {"a", "r+"}

DefaultComplevel == 4

SeedGlobalAttr(filename, name) ==
    LET seeded == [id |-> Basename(filename), date_created |-> "now"]
    IN IF name # "None" THEN Put(seeded, "dataset_name", name) ELSE seeded

ResolveMode(mode, exists) ==
    LET m1 == IF mode \in alias_a THEN "a" ELSE mode
    IN IF m1 = "a" /\ ~exists THEN "w" ELSE m1

\* OpenOutcome without the existence check of lines 132-133
OpenOutcomeUnchecked(argmode, filename) ==
    IF argmode \in {"r", "a"}
    THEN [pc |-> "open", err |-> "none", dsState |-> "open",
          ds |-> fs.content]
    ELSE [pc |-> "open", err |-> "none", dsState |-> "open",
          ds |-> EmptyDataset]

\* lines 131-137: the outcome of the open part of the constructor
OpenOutcome(argmode, filename) ==
    IF argmode \in {"r", "a"}
    THEN IF ~Exists(filename)
         THEN [pc |-> "failed", err |-> "IOError", dsState |-> "unset",
               ds |-> EmptyDataset]
         ELSE [pc |-> "open", err |-> "none", dsState |-> "open",
               ds |-> fs.content]
    ELSE [pc |-> "open", err |-> "none", dsState |-> "open",
          ds |-> EmptyDataset]

\* the rest of __init__ once the mode is resolved and the directory is there
OpenStep(hh) ==
    LET o == OpenOutcome(hh.argmode, hh.filename)
    IN /\ pc' = o.pc
       /\ dsState' = o.dsState
       /\ ds' = o.ds
       /\ last' = [last EXCEPT !.err = o.err]

InitBegin(filename, name, mode, zlib) ==
    /\ pc = "new"
    /\ LET hh == [filename |-> filename,
                  argmode |-> mode,
                  mode |-> ResolveMode(mode, Exists(filename)),
                  zlib |-> zlib,
                  complevel |-> DefaultComplevel,
                  gattr |-> SeedGlobalAttr(filename, name)]
           call == [op |-> "__init__", err |-> "running", mode |-> mode,
                    existed |-> Exists(filename), before |-> fs]
       IN /\ h' = hh
          /\ IF hh.mode = "w"
             THEN /\ pc' = "create_dir"
                  /\ last' = call
                  /\ UNCHANGED <<dsState, ds>>
             ELSE LET o == OpenOutcome(mode, filename)
                  IN /\ pc' = o.pc
                     /\ dsState' = o.dsState
                     /\ ds' = o.ds
                     /\ last' = [call EXCEPT !.err = o.err]
    /\ UNCHANGED <<fs, res, rt>>

\* _create_file_dir, lines 153-154: the existence check
CheckDir ==
    /\ pc = "create_dir"
    /\ IF Exists(Dirname(h.filename))
       THEN OpenStep(h)
       ELSE /\ pc' = "makedirs"
            /\ UNCHANGED <<dsState, ds, last>>
    /\ UNCHANGED <<fs, h, res, rt>>

\* _create_file_dir, lines 155-157: os.makedirs and its OSError
Makedirs ==
    /\ pc = "makedirs"
    /\ IF MakedirsFails(Dirname(h.filename))
       THEN /\ pc' = "sleep"
            /\ UNCHANGED <<fs, dsState, ds, last>>
       ELSE /\ fs' = [fs EXCEPT !.dir = TRUE]
            /\ OpenStep(h)
    /\ UNCHANGED <<h, res, rt>>

\* _create_file_dir, lines 158-159: sleep, then the recursive call
SleepRetry ==
    /\ pc = "sleep"
    /\ pc' = "create_dir"
    /\ UNCHANGED <<fs, h, dsState, ds, res, last, rt>>

\* another process creates the same parent directory meanwhile
OtherProcessMakesDir ==
    /\ pc \in {"create_dir", "makedirs", "sleep"}
    /\ Dirname(h.filename) = "dir"
    /\ ~fs.dir
    /\ ~fs.denied
    /\ fs' = [fs EXCEPT !.dir = TRUE]
    /\ UNCHANGED <<pc, h, dsState, ds, res, last, rt>>

(***************************************************************************)
(* Global attributes                                                       *)
(***************************************************************************)
\* the global_attr property: the resource's own attribute mapping
GlobalAttr(d) == d.attrs

\* _set_global_attr
SetGlobalAttr(d) == [d EXCEPT !.attrs = Update(d.attrs, GlobalAttr(d))]

AddGlobalAttr(name, value) ==
    /\ pc = "open"
    /\ IF dsState = "open"
       THEN /\ ds' = [ds EXCEPT !.attrs = Put(GlobalAttr(ds), name, value)]
            /\ last' = [op |-> "add_global_attr", err |-> "none",
                        name |-> name, value |-> value,
                        had |-> /\ name \in DOMAIN ds.attrs
                                /\ ds.attrs[name] = value]
       ELSE /\ ds' = ds
            /\ last' = [op |-> "add_global_attr", err |-> "AttributeError",
                        name |-> name, value |-> value, had |-> FALSE]
    /\ rt' = Idle
    /\ UNCHANGED <<fs, pc, h, dsState, res>>

(***************************************************************************)
(* Dimensions and variables                                                *)
(***************************************************************************)
CreateDim(name, n) ==
    /\ pc = "open"
    /\ IF dsState = "open"
       THEN /\ ds' = IF name \notin DOMAIN ds.dims
                     THEN [ds EXCEPT !.dims =
                              Put(ds.dims, name,
                                  [unlimited |-> n = 0, size |-> n])]
                     ELSE ds
            /\ last' = [op |-> "create_dim", err |-> "none", name |-> name]
       ELSE /\ ds' = ds
            /\ last' = [op |-> "create_dim", err |-> "AttributeError",
                        name |-> name]
    /\ rt' = Idle
    /\ UNCHANGED <<fs, pc, h, dsState, res>>

\* lines 235-236
ResolveDtype(dtype, data) == IF dtype = "None" THEN data.dtype ELSE dtype

\* ResolveZlib without the dtype test of lines 241-243
ResolveZlibAnyDtype(zlib, default, dtype) ==
    IF zlib = "unset" THEN default ELSE zlib = "on"

\* lines 238-243
ResolveZlib(zlib, default, dtype) ==
    LET requested == IF zlib = "unset" THEN default ELSE zlib = "on"
    IN IF ~IsNumeric(dtype) THEN FALSE ELSE requested

\* the shapes of data that fit the dimension tuple: the size of a fixed
\* dimension, a number of records along an unlimited one
ShapesFor(d, dims, appending) ==
    LET counts(i) ==
            IF d.dims[dims[i]].unlimited
            THEN {m \in RecCounts :
                    (IF appending THEN d.dims[dims[i]].size ELSE 0) + m
                        <= MaxExtent}
            ELSE {d.dims[dims[i]].size}
    IN IF Len(dims) = 0 THEN {<<>>}
       ELSE IF Len(dims) = 1 THEN {<<a>> : a \in counts(1)}
       ELSE {<<a, b>> : a \in counts(1), b \in counts(2)}

Registered(d, dims) == \A i \in 1..Len(dims) : dims[i] \in DOMAIN d.dims

\* the data a caller passes for variable name (dimension tuple dim if new)
DataFor(d, name, dim, appending) ==
    IF dsState # "open" THEN {Arr("f8", <<>>, 0)}
    ELSE LET dims == IF name \in DOMAIN d.vars THEN d.vars[name].dims ELSE dim
         IN IF ~Registered(d, dims) THEN {Arr("f8", <<>>, 0)}
            ELSE {Arr(dt, sh, s) : dt \in DataDTypes,
                                   sh \in ShapesFor(d, dims, appending),
                                   s \in Seeds}

\* the caller passes numbers for a numeric variable, strings for a string one
Compatible(d, name, data, dtype) ==
    \/ data = NoData
    \/ dsState # "open"
    \/ IsNumeric(data.dtype) =
          IsNumeric(IF name \in DOMAIN d.vars THEN d.vars[name].dtype
                    ELSE ResolveDtype(dtype, data))

\* write_var: the error raised (or "none"), the resource afterwards, and
\* whether the variable was created by this call
WriteVarOutcome(d, name, data, dim, fills, dtype, zlib) ==
    IF dtype = "None" /\ data = NoData
    THEN [err |-> "AttributeError", ds |-> d, created |-> FALSE]
    ELSE IF dsState # "open"
    THEN [err |-> "AttributeError", ds |-> d, created |-> FALSE]
    ELSE LET rdtype == ResolveDtype(dtype, data)
             rzlib == ResolveZlib(zlib, h.zlib, rdtype)
             exists == name \in DOMAIN d.vars
         IN IF ~exists /\ ~Registered(d, dim)
            THEN [err |-> "KeyError", ds |-> d, created |-> FALSE]
            ELSE LET d1 == IF exists THEN d
                           ELSE LibCreateVariable(d, name, rdtype, dim, fills,
                                                  rzlib, h.complevel)
                     all == [i \in 1..Len(d1.vars[name].dims) |-> 0]
                     d2 == IF data # NoData
                           THEN LibSetItem(d1, name, all, data)
                           ELSE d1
                 IN [err |-> "none", ds |-> d2, created |-> ~exists]

WriteVar(name, data, dim, fills, dtype, zlib) ==
    /\ pc = "open"
    /\ Compatible(ds, name, data, dtype)
    /\ LET o == WriteVarOutcome(ds, name, data, dim, fills, dtype, zlib)
       IN /\ ds' = o.ds
          /\ last' = [op |-> "write_var", err |-> o.err, name |-> name,
                      created |-> o.created,
                      dtype |-> IF o.created THEN ResolveDtype(dtype, data)
                                ELSE "None",
                      zlib |-> IF o.created THEN zlib ELSE "unset"]
          /\ rt' = IF o.err = "none" /\ data # NoData
                   THEN [stage |-> "written", name |-> name, data |-> data]
                   ELSE Idle
    /\ UNCHANGED <<fs, pc, h, dsState, res>>

\* AppendKey with every slice starting at the origin
AppendKeyFromOrigin(d, v) == [i \in 1..Len(v.dims) |-> 0]

\* the slice key of append_var: lines 295-307 and 311
AppendKey(d, v) ==
    [i \in 1..Len(v.dims) |->
        IF ~d.dims[v.dims[i]].unlimited THEN 0 ELSE Shape(d, v)[i]]

\* NrUnlimited counting every dimension
NrDimensions(d, v) == Len(v.dims)

\* lines 309-310
NrUnlimited(d, v) ==
    Cardinality({i \in 1..Len(v.dims) : d.dims[v.dims[i]].unlimited})

AppendVarOutcome(d, name, data, dim) ==
    IF dsState # "open"
    THEN [err |-> "AttributeError", ds |-> d]
    ELSE IF name \in DOMAIN d.vars
    THEN IF NrUnlimited(d, d.vars[name]) > 0
         THEN [err |-> "none",
               ds |-> LibSetItem(d, name, AppendKey(d, d.vars[name]), data)]
         ELSE [err |-> "IOError", ds |-> d]
    ELSE LET o == WriteVarOutcome(d, name, data, dim, {}, "None", "unset")
         IN [err |-> o.err, ds |-> o.ds]

AppendVar(name, data, dim) ==
    /\ pc = "open"
    /\ Compatible(ds, name, data, "None")
    /\ LET o == AppendVarOutcome(ds, name, data, dim)
           existed == dsState = "open" /\ name \in DOMAIN ds.vars
       IN /\ ds' = o.ds
          /\ last' = [op |-> "append_var", err |-> o.err, name |-> name,
                      existed |-> existed, data |-> data, before |-> ds]
    /\ rt' = Idle
    /\ UNCHANGED <<fs, pc, h, dsState, res>>

NoneResult == [kind |-> "None"]

\* ReadVarOutcome reading only on handles in mode 'r' or 'r+'
ReadVarOutcomeReadModes(d, name) ==
    IF h.mode \in {"r", "r+"}
    THEN IF dsState # "open"
         THEN [err |-> "AttributeError", result |-> NoneResult]
         ELSE IF name \in DOMAIN d.vars
              THEN [err |-> "none", result |-> LibGetAll(d, name)]
              ELSE [err |-> "none", result |-> NoneResult]
    ELSE [err |-> "none", result |-> NoneResult]

ReadVarOutcome(d, name) ==
    IF h.mode \in {"r", "r+", "a"}
    THEN IF dsState # "open"
         THEN [err |-> "AttributeError", result |-> NoneResult]
         ELSE IF name \in DOMAIN d.vars
              THEN [err |-> "none", result |-> LibGetAll(d, name)]
              ELSE [err |-> "none", result |-> NoneResult]
    ELSE [err |-> "none", result |-> NoneResult]

ReadVar(name) ==
    /\ pc = "open"
    /\ LET o == ReadVarOutcome(ds, name)
       IN /\ last' = [op |-> "read_var", err |-> o.err, name |-> name,
                      result |-> o.result]
          /\ rt' = IF rt.stage = "flushed" /\ rt.name = name /\ o.err = "none"
                   THEN [stage |-> "read", name |-> name, data |-> rt.data,
                         result |-> o.result]
                   ELSE Idle
    /\ UNCHANGED <<fs, pc, h, dsState, ds, res>>

(***************************************************************************)
(* flush / close / __exit__ / __del__                                      *)
(***************************************************************************)
FlushWrites == dsState = "open" /\ h.mode \in {"w", "r+", "a"}

\* the resource after flush()
Flushed(d) == IF FlushWrites THEN SetGlobalAttr(d) ELSE d

\* dataset.sync(): on a resource already released it is a late sync
Synced(r) == IF FlushWrites /\ r.closeCalls > 0
             THEN [r EXCEPT !.lateSync = TRUE]
             ELSE r

Flush ==
    /\ pc = "open"
    /\ ds' = Flushed(ds)
    /\ res' = Synced(res)
    /\ last' = [op |-> "flush", err |-> "none"]
    /\ rt' = IF rt.stage = "written" /\ FlushWrites
             THEN [rt EXCEPT !.stage = "flushed"]
             ELSE Idle
    /\ UNCHANGED <<fs, pc, h, dsState>>

\* CloseEffect without line 364: self.dataset keeps the released resource
CloseEffectKeepsDataset ==
    IF dsState = "open"
    THEN /\ res' = [Synced(res) EXCEPT !.closeCalls = @ + 1]
         /\ UNCHANGED <<dsState, ds>>
    ELSE UNCHANGED <<res, dsState, ds>>

\* close(): the effect shared by close, __exit__ and __del__
CloseEffect ==
    IF dsState = "open"
    THEN /\ res' = [Synced(res) EXCEPT !.closeCalls = @ + 1]
         /\ dsState' = "none"
         /\ ds' = EmptyDataset
    ELSE UNCHANGED <<res, dsState, ds>>

Close ==
    /\ pc = "open"
    /\ CloseEffect
    /\ last' = [op |-> "close", err |-> "none"]
    /\ rt' = Idle
    /\ UNCHANGED <<fs, pc, h>>

Exit ==
    /\ pc = "open"
    /\ CloseEffect
    /\ last' = [op |-> "__exit__", err |-> "none"]
    /\ rt' = Idle
    /\ UNCHANGED <<fs, pc, h>>

\* __del__ also runs on an object whose constructor raised
Del ==
    /\ pc \in {"open", "failed"}
    /\ IF dsState # "unset"
       THEN CloseEffect
       ELSE UNCHANGED <<res, dsState, ds>>
    /\ last' = [op |-> "__del__", err |-> "none"]
    /\ rt' = Idle
    /\ UNCHANGED <<fs, pc, h>>

(***************************************************************************)
(* Initial states and the specification                                    *)
(***************************************************************************)
\* what a file found on disk holds
SampleFile ==
    [attrs |-> [note |-> "v1"],
     dims |-> [time |-> [unlimited |-> TRUE, size |-> 1],
               x |-> [unlimited |-> FALSE, size |-> 2]],
     vars |-> [temp |-> [dims |-> <<"time">>, dtype |-> "f8", fills |-> {},
                         zlib |-> TRUE, complevel |-> DefaultComplevel,
                         data |-> (<<1>> :> 3)]]]

ExistingContents == {SampleFile}

Init ==
    /\ \E dir \in BOOLEAN, files \in SUBSET Filenames, denied \in BOOLEAN,
          content \in ExistingContents :
          /\ ("dir/x.nc" \in files => dir)
          /\ fs = [dir |-> dir, files |-> files, denied |-> denied,
                   content |-> content]
    /\ pc = "new"
    /\ h = [filename |-> "x.nc", argmode |-> "r", mode |-> "r", zlib |-> TRUE,
            complevel |-> DefaultComplevel, gattr |-> Empty]
    /\ dsState = "unset"
    /\ ds = EmptyDataset
    /\ res = [closeCalls |-> 0, lateSync |-> FALSE]
    /\ last = [op |-> "none", err |-> "none"]
    /\ rt = Idle

\* a handle as __init__ leaves it when the parent directory is there
VarInit ==
    \E mode \in Modes, zlib \in BOOLEAN, exists \in BOOLEAN,
       content \in ExistingContents :
       LET filename == "dir/x.nc"
       IN /\ fs = [dir |-> TRUE,
                   files |-> IF exists THEN {filename} ELSE {},
                   denied |-> FALSE,
                   content |-> content]
          /\ h = [filename |-> filename, argmode |-> mode,
                  mode |-> ResolveMode(mode, Exists(filename)),
                  zlib |-> zlib, complevel |-> DefaultComplevel,
                  gattr |-> SeedGlobalAttr(filename, "ds")]
          /\ LET o == OpenOutcome(mode, filename)
             IN /\ o.pc = "open"
                /\ pc = o.pc
                /\ dsState = o.dsState
                /\ ds = o.ds
          /\ res = [closeCalls |-> 0, lateSync |-> FALSE]
          /\ last = [op |-> "__init__", err |-> "none", mode |-> mode,
                     existed |-> exists, before |-> fs]
          /\ rt = Idle

InitNext ==
    \/ \E filename \in Filenames, name \in DatasetNames, mode \in Modes,
          zlib \in BOOLEAN :
          InitBegin(filename, name, mode, zlib)
    \/ CheckDir
    \/ Makedirs
    \/ SleepRetry
    \/ OtherProcessMakesDir

AttrNext ==
    \E name \in AttrNames, value \in AttrValues : AddGlobalAttr(name, value)

DimNext ==
    \E decl \in DimDecls : CreateDim(decl[1], decl[2])

\* write_var calls: every argument matters when the call creates the
\* variable; on an existing variable only the data are used
WriteNext ==
    \E name \in VarNames :
       IF dsState = "open" /\ name \notin DOMAIN ds.vars
       THEN \E dim \in DimTuples, fills \in FillArgs, dtype \in DTypeArgs,
               zlib \in ZlibArgs :
               \E data \in DataFor(ds, name, dim, FALSE) \cup {NoData} :
                   WriteVar(name, data, dim, fills, dtype, zlib)
       ELSE \E dtype \in {"None", "f8"} :
               \E data \in DataFor(ds, name, <<>>, FALSE) \cup {NoData} :
                   WriteVar(name, data, <<>>, {}, dtype, "on")

AppendNext ==
    \E name \in VarNames :
       IF dsState = "open" /\ name \notin DOMAIN ds.vars
       THEN \E dim \in DimTuples :
               \E data \in DataFor(ds, name, dim, TRUE) :
                   AppendVar(name, data, dim)
       ELSE \E data \in DataFor(ds, name, <<>>, TRUE) :
               AppendVar(name, data, <<>>)

ReadNext ==
    \E name \in VarNames : ReadVar(name)

\* the constructor, the attributes and the life cycle
LifeNext ==
    \/ InitNext
    \/ AttrNext
    \/ ReadNext
    \/ Flush
    \/ Close
    \/ Exit
    \/ Del

\* the variables of an open handle
VarNext ==
    \/ DimNext
    \/ WriteNext
    \/ AppendNext
    \/ ReadNext
    \/ Flush
    \/ Close

Next == LifeNext \/ VarNext

Spec == Init /\ [][Next]_vars

LifeSpec == Init /\ [][LifeNext]_vars

\* the constructor is synchronous code: a step it can take, it takes
FairLifeSpec == LifeSpec /\ WF_vars(CheckDir \/ Makedirs \/ SleepRetry)

VarSpec == VarInit /\ [][VarNext]_vars

(***************************************************************************)
(* Properties                                                              *)
(***************************************************************************)
\* __init__ has returned or raised
Constructed == last.op = "__init__" /\ pc \in {"open", "failed"}

\* C1: opening with mode 'a' a path that does not exist does what mode 'w'
\* does: the constructor does not fail, the parent directory is there, the
\* handle is in mode 'w' over a fresh empty dataset, and the seeded global
\* attributes id and date_created reach the new file at the first flush.
C1_AppendOnMissingIsWriteNew ==
    /\ (Constructed /\ last.mode = "a" /\ ~last.existed) =>
           /\ last.err = "none"
           /\ pc = "open"
           /\ h.mode = "w"
           /\ dsState = "open"
           /\ ds = EmptyDataset
           /\ Exists(Dirname(h.filename))
    /\ (pc = "open" /\ h.argmode = "a" /\ h.mode = "w" /\ last.op = "flush") =>
           {"id", "date_created"} \subseteq DOMAIN ds.attrs

\* C7: every spelling of append mode opens like 'a': an existing file is
\* opened (its content, not a fresh empty dataset), and on a path that does
\* not exist the outcome is the one mode 'a' has.
C7_AliasOpensLikeAppend ==
    (Constructed /\ last.mode \in alias_a) =>
        /\ h.mode = ResolveMode("a", last.existed)
        /\ pc = OpenOutcome("a", h.filename).pc
        /\ dsState = OpenOutcome("a", h.filename).dsState
        /\ ds = OpenOutcome("a", h.filename).ds
        /\ last.existed => (pc = "open" /\ ds = fs.content)

\* C8: opening with mode 'r' a path that does not exist raises IOError: no
\* handle comes out of it (self.dataset is never assigned, nothing is there
\* to release) and the filesystem is as it was.
C8_ReadOnlyOnMissingFails ==
    (Constructed /\ last.mode = "r" /\ ~last.existed) =>
        /\ last.err = "IOError"
        /\ pc = "failed"
        /\ dsState = "unset"
        /\ res.closeCalls = 0
        /\ fs = last.before

C8_Witness ==
    Constructed /\ last.mode = "r" /\ ~last.existed /\ pc = "failed"

\* C9: once _create_file_dir is entered, the constructor goes on to open the
\* dataset or to raise, whatever the filesystem does.
C9_CreateFileDirTerminates ==
    (pc = "create_dir") ~> (pc \in {"open", "failed"})

\* C5: from the first close() on, the handle stays closed: no call releases
\* or syncs the resource again (it is released exactly once), and close,
\* flush, __exit__ and __del__ raise nothing.
C5_ClosedIsTerminal ==
    [][res.closeCalls >= 1 =>
          /\ dsState = "none"
          /\ dsState' = "none"
          /\ res' = res
          /\ res.closeCalls = 1
          /\ ~res.lateSync
          /\ (last'.op \in {"close", "flush", "__exit__", "__del__"} =>
                 last'.err = "none")]_vars

C5_Witness ==
    /\ res.closeCalls = 1
    /\ dsState = "none"
    /\ last.op \in {"close", "flush", "__exit__", "__del__"}
    /\ h.mode \in {"w", "a"}

\* C6: an attribute added with add_global_attr is held in the handle's own
\* mapping and is not among the resource's attributes before the next flush
\* or close.
C6_AttrOnlyInMemoryUntilFlush ==
    (last.op = "add_global_attr" /\ last.err = "none" /\ ~last.had) =>
        /\ last.name \in DOMAIN h.gattr
        /\ h.gattr[last.name] = last.value
        /\ ~(last.name \in DOMAIN ds.attrs
              /\ ds.attrs[last.name] = last.value)

\* C10: a write_var call that creates a variable of a non-numeric dtype
\* records zlib = False for it and raises nothing, whatever the zlib
\* argument and the handle's default are.
C10_NonNumericIsUncompressed ==
    (last.op = "write_var" /\ last.created /\ ~IsNumeric(last.dtype)) =>
        /\ last.err = "none"
        /\ last.name \in DOMAIN ds.vars
        /\ ds.vars[last.name].dtype = last.dtype
        /\ ds.vars[last.name].zlib = FALSE

C10_Witness ==
    /\ last.op = "write_var"
    /\ last.created
    /\ last.dtype = "S1"
    /\ last.zlib = "on"
    /\ h.zlib

\* the axes of variable v that run along an unlimited dimension
UnlimitedAxes(d, v) ==
    {i \in 1..Len(v.dims) : d.dims[v.dims[i]].unlimited}

\* the last call was append_var on a variable that existed
AppendedToExisting == last.op = "append_var" /\ last.existed

\* C4: append_var on an existing variable whose dimensions are all fixed
\* raises IOError and leaves the resource, the variable's data and extent
\* included, as it was.
C4_AppendToFixedIsRejected ==
    (AppendedToExisting
        /\ UnlimitedAxes(last.before, last.before.vars[last.name]) = {}) =>
        /\ last.err = "IOError"
        /\ ds = last.before

C4_Witness ==
    /\ AppendedToExisting
    /\ UnlimitedAxes(last.before, last.before.vars[last.name]) = {}
    /\ last.err = "IOError"
    /\ \E idx \in DOMAIN ds.vars[last.name].data :
          ds.vars[last.name].data[idx] # Unwritten

\* C3: append_var with m records on an existing variable that has exactly
\* one unlimited dimension, of extent k, leaves the variable with extent
\* k + m along it, its first k records as they were and the new records (in
\* the variable's dtype) at positions k .. k+m-1.
C3_AppendExtends ==
    (AppendedToExisting
        /\ Cardinality(UnlimitedAxes(last.before,
                                     last.before.vars[last.name])) = 1) =>
        LET old == last.before.vars[last.name]
            new == ds.vars[last.name]
            axis == CHOOSE i \in UnlimitedAxes(last.before, old) : TRUE
            k == Shape(last.before, old)[axis]
            m == last.data.shape[axis]
            shifted(idx) == [idx EXCEPT ![axis] = @ + k]
        IN /\ last.err = "none"
           /\ Shape(ds, new)[axis] = k + m
           /\ \A i \in 1..Len(new.dims) :
                 i # axis => Shape(ds, new)[i] = Shape(last.before, old)[i]
           /\ DOMAIN new.data = Indices(Shape(ds, new))
           /\ \A idx \in DOMAIN old.data : new.data[idx] = old.data[idx]
           /\ \A idx \in DOMAIN last.data.val :
                 new.data[shifted(idx)] = Cast(last.data.val[idx], new.dtype)

C3_Witness ==
    /\ AppendedToExisting
    /\ last.err = "none"
    /\ LET old == last.before.vars[last.name]
       IN /\ Cardinality(UnlimitedAxes(last.before, old)) = 1
          /\ Len(old.dims) = 2
          /\ \E i \in UnlimitedAxes(last.before, old) :
                /\ Shape(last.before, old)[i] = 1
                /\ last.data.shape[i] = 1
          /\ \A idx \in DOMAIN old.data : old.data[idx] # Unwritten

\* C2: write_var(name, d) with a numeric array d, then flush(), then
\* read_var(name) on the same handle returns exactly d, in every mode the
\* handle may be opened for writing in.
C2_RoundTrip ==
    (rt.stage = "read" /\ IsNumeric(rt.data.dtype)) =>
        /\ rt.result.kind = "array"
        /\ rt.result.shape = rt.data.shape
        /\ rt.result.val = rt.data.val

\* the array written spans the whole variable, in the variable's own dtype,
\* and holds no element equal to the variable's declared fill value
WrittenAsStored ==
    LET v == ds.vars[rt.name]
    IN /\ Shape(ds, v) = rt.data.shape
       /\ v.dtype = rt.data.dtype
       /\ \A idx \in DOMAIN rt.data.val : rt.data.val[idx] \notin v.fills

\* C2 (amended): on a handle whose mode is 'a', write_var(name, d) with a
\* numeric array d, then flush(), then read_var(name) returns exactly d when
\* d spans the variable's whole extent, the variable's dtype is d's and no
\* element of d is the variable's fill value; on a handle whose mode is 'w'
\* the same read_var returns None.
C2_RoundTripInAppendMode ==
    (rt.stage = "read" /\ IsNumeric(rt.data.dtype)) =>
        /\ (h.mode = "a" /\ WrittenAsStored) =>
               /\ rt.result.kind = "array"
               /\ rt.result.shape = rt.data.shape
               /\ rt.result.val = rt.data.val
        /\ h.mode = "w" => rt.result = NoneResult

C2_Witness ==
    /\ rt.stage = "read"
    /\ IsNumeric(rt.data.dtype)
    /\ h.mode = "a"
    /\ WrittenAsStored
    /\ Cardinality(DOMAIN rt.data.val) >= 2
    /\ rt.result.kind = "array"
    /\ rt.result.val = rt.data.val
====
